---- MODULE Spec2Model ----
(***************************************************************************)
(* Smart Job Application Tracker backend: the in-memory store              *)
(* (app/core/database.py), the scheduler endpoints and the background      *)
(* Gmail checker (app/services/gmail_calendar.py), the AI preparation      *)
(* endpoint with its stub client (app/services/ai_prep.py) and the Google  *)
(* OAuth endpoints (app/services/auth.py), and the session of the          *)
(* Streamlit dashboard (app.py).                                           *)
(*                                                                         *)
(* Conventions.  A Python dict is a function whose DOMAIN is the set of    *)
(* keys present.  Python None is the string None.  An optional record is   *)
(* a set with at most one element.  A text is a sequence of words; the     *)
(* substring test of Python's `in` is Contains.  An app_id                 *)
(* f"APP-{int(time.time())}-{random.randint(100,999)}" is the pair         *)
(* <<seconds, draw>> (the format is injective on it).  A confidence is an  *)
(* integer number of hundredths (round(x, 2) * 100).                       *)
(***************************************************************************)
EXTENDS Integers, Sequences, FiniteSets, TLC

VARIABLES
    users,              \* MOCK_DB_STORE['users']
    applications,       \* MOCK_DB_STORE['applications']
    TEMP_SESSION_STATE, \* auth.TEMP_SESSION_STATE
    now,                \* int(time.time()), the wall clock in seconds
    tasks,              \* runs of check_gmail_and_schedule, in request order
    resp,               \* the response of the latest HTTP request
    jd_text,            \* input of a direct analyze_documents call
    resume_text,        \* input of a direct analyze_documents call
    raw_tips,           \* its result, {} before the call
    session,            \* the dashboard's st.session_state
    view                \* the latest step of the dashboard script

vars == <<users, applications, TEMP_SESSION_STATE, now, tasks, resp,
         jd_text, resume_text, raw_tips, session, view>>

\* the state of the dashboard
dashboard == <<session, view>>

store == <<users, applications>>

(***************************************************************************)
(* Bounds of the model.                                                    *)
(***************************************************************************)
\* the clock runs from 0 to MaxTime
MaxTime == 1
\* random.randint(100, 999) is drawn from RandLo..MaxRand
MaxRand == 101
\* at most MaxTasks start_background_check requests
MaxTasks == 1
\* a text given to analyze_documents is made of at most MaxParts parts
MaxParts == 3

(***************************************************************************)
(* Program constants.                                                      *)
(***************************************************************************)
None == "<None>"
RandLo == 100
DaysLo == 3
DaysHi == 10

HTTP_200_OK == 200
HTTP_302_FOUND == 302
HTTP_307_TEMPORARY_REDIRECT == 307
HTTP_400_BAD_REQUEST == 400
HTTP_404_NOT_FOUND == 404
HTTP_500_INTERNAL_SERVER_ERROR == 500

MOCK_USER_ID == "MOCK_USER_ID"
\* ids Google's userinfo service can report
GoogleIds == {"G1"}
UserIds == {MOCK_USER_ID} \cup GoogleIds
\* refresh tokens Google can issue
Tokens == {"rt1", "rt2"}
\* state values flow.authorization_url can generate
States == {"s1", "s2"}
\* names Google's userinfo can report (None: no name)
Names == {None, "Ann"}
\* resume texts a client can upload
ResumeTexts == {"", "cv1", "cv2"}

SeniorBackendEngineer == <<"Senior", "Backend", "Engineer">>
JuniorDataScientist == <<"Junior", "Data", "Scientist">>

MOCK_JDS ==
    [k \in {"JD-001", "JD-002", "JD-003", "JD-004"} |->
        CASE k = "JD-001" -> <<"Senior", "Backend", "Engineer", "role", "requires">>
          [] k = "JD-002" -> <<"Junior", "Data", "Scientist", "opening">>
          [] k = "JD-003" -> <<"DevOps", "Associate", "opening">>
          [] k = "JD-004" -> <<"SDE", "Intern", "requiring">>]

MOCK_JDS_values == {MOCK_JDS[k] : k \in DOMAIN MOCK_JDS}

CheckerCompanies == {"MegaCorp", "AlphaTech", "GlobalSoft"}
CheckerRoles == {"Software Engineer", "Data Analyst", "Intern"}

RandIds == RandLo..MaxRand
\* random.randint(3, 10): the two ends of the range stand for its values
RandDays == {DaysLo, DaysHi}
Times == 0..MaxTime

(***************************************************************************)
(* Python helpers.                                                         *)
(***************************************************************************)
\* bool(v) of a str-or-None value
Truthy(v) == v # None /\ v # ""

\* d.get(k), with None as the default
Get(d, k) == IF k \in DOMAIN d THEN d[k] ELSE None

\* d[k] = v
Put(d, k, v) == [x \in DOMAIN d \cup {k} |-> IF x = k THEN v ELSE d[x]]

\* variant: the key is left in place
Pop_keep(d, k) == d

\* d.pop(k, None)
Pop(d, k) == [x \in DOMAIN d \ {k} |-> d[x]]

\* needle in hay
Contains(hay, needle) ==
    \E i \in 0..(Len(hay) - Len(needle)) :
        SubSeq(hay, i + 1, i + Len(needle)) = needle

\* (datetime.now() + timedelta(days, hours)).isoformat() taken at second t
IsoDate(t, days, hours) == <<"iso", t, days, hours>>

\* datetime.fromisoformat(s)
FromIsoFormat(s) == [second |-> s[2], days |-> s[3], hours |-> s[4]]

(***************************************************************************)
(* app/core/database.py                                                    *)
(***************************************************************************)
\* variant: the user's record is rebuilt instead of updated
mock_save_user_token_reset(us, user_id, refresh_token) ==
    Put(us, user_id, Put(<<>>, "refresh_token", refresh_token))

mock_save_user_token(us, user_id, refresh_token) ==
    LET us1 == IF user_id \notin DOMAIN us THEN Put(us, user_id, <<>>) ELSE us
    IN  Put(us1, user_id, Put(us1[user_id], "refresh_token", refresh_token))

\* variant: any record of the user counts as a token
mock_get_user_token_any(us, user_id) ==
    IF user_id \in DOMAIN us THEN "present" ELSE None

mock_get_user_token(us, user_id) ==
    IF user_id \in DOMAIN us THEN Get(us[user_id], "refresh_token") ELSE None

mock_get_user_resume(us, user_id) ==
    IF user_id \in DOMAIN us THEN Get(us[user_id], "resume_text") ELSE None

mock_get_applications(apps, user_id) ==
    {apps[id] : id \in {i \in DOMAIN apps : apps[i].user_id = user_id}}

AppId(t, r) == <<t, r>>

NewApplication(user_id, company, role, jd, interview_date, t, r) ==
    [user_id |-> user_id, app_id |-> AppId(t, r), company |-> company,
     role |-> role, jd_text |-> jd, date |-> interview_date,
     status |-> "Upcoming"]

mock_add_application(apps, user_id, company, role, jd, interview_date, t, r) ==
    Put(apps, AppId(t, r),
        NewApplication(user_id, company, role, jd, interview_date, t, r))

(***************************************************************************)
(* HTTP responses.  body is a set holding at most one value.               *)
(***************************************************************************)
Response(op, user_id, status_code, detail, body) ==
    [op |-> op, user_id |-> user_id, status |-> status_code,
     detail |-> detail, body |-> body]

NoResponse == Response(None, None, 0, None, {})

(***************************************************************************)
(* app/models/schemas.py                                                   *)
(***************************************************************************)
\* Application(**app): the declared fields; other keys are ignored
Application(app) ==
    [app_id |-> app.app_id, user_id |-> app.user_id, company |-> app.company,
     role |-> app.role, jd_text |-> app.jd_text, date |-> app.date,
     status |-> app.status]

ApplicationList(app_data) == [applications |-> {Application(a) : a \in app_data}]

\* PrepTipsResponse(**raw_tips)
PrepTipsResponse(tips) ==
    [key_topics_to_revise |-> tips.key_topics_to_revise,
     likely_behavioral_questions |-> tips.likely_behavioral_questions,
     likely_technical_questions |-> tips.likely_technical_questions,
     match_confidence |-> tips.match_confidence,
     match_feedback |-> tips.match_feedback]

(***************************************************************************)
(* app/services/gmail_calendar.py                                          *)
(***************************************************************************)
\* the three demo applications, added at seconds t1 <= t2 <= t3 with the
\* draws r1, r2, r3 of random.randint
SeedDemoApplications(apps, user_id, t1, t2, t3, r1, r2, r3) ==
    LET a1 == mock_add_application(apps, user_id, "TechCorp Solutions",
                  "Senior Backend Engineer", MOCK_JDS["JD-001"],
                  IsoDate(t1, 2, 3), t1, r1)
        a2 == mock_add_application(a1, user_id, "Innovate Systems",
                  "Junior Data Scientist", MOCK_JDS["JD-002"],
                  IsoDate(t2, 5, 1), t2, r2)
    IN  mock_add_application(a2, user_id, "Aurora Labs", "SDE Intern",
            MOCK_JDS["JD-004"], IsoDate(t3, 15, 5), t3, r3)

\* GET /applications/{user_id}
get_applications_list(user_id, t1, t2, t3, r1, r2, r3) ==
    /\ now <= t1 /\ t1 <= t2 /\ t2 <= t3
    /\ LET seeded == IF mock_get_applications(applications, user_id) = {}
                     THEN SeedDemoApplications(applications, user_id,
                                               t1, t2, t3, r1, r2, r3)
                     ELSE applications
           app_data == mock_get_applications(seeded, user_id)
           \* app['interview_date'] of a record without that key
           key_error == \E app \in app_data : "interview_date" \notin DOMAIN app
           converted == [id \in DOMAIN seeded |->
                            IF seeded[id].user_id = user_id
                            THEN Put(seeded[id], "interview_date",
                                     FromIsoFormat(seeded[id]["interview_date"]))
                            ELSE seeded[id]]
       IN  IF key_error
           THEN /\ applications' = seeded
                /\ resp' = Response("get_applications_list", user_id,
                                    HTTP_500_INTERNAL_SERVER_ERROR,
                                    "KeyError: interview_date", {})
           ELSE /\ applications' = converted
                /\ resp' = Response("get_applications_list", user_id,
                                    HTTP_200_OK, None,
                                    {ApplicationList(mock_get_applications(converted, user_id))})
    /\ now' = t3
    /\ UNCHANGED <<users, TEMP_SESSION_STATE, tasks, jd_text, resume_text, raw_tips>>

\* POST /start-check: background_tasks.add_task(check_gmail_and_schedule, user.id)
start_background_check(user) ==
    /\ tasks' = Append(tasks, [user_id |-> user.id, pc |-> "queued",
                               refresh_token |-> None, wake |-> 0])
    /\ resp' = Response("start_background_check", user.id, HTTP_200_OK,
                        "Background Gmail check initiated.", {})
    /\ UNCHANGED <<users, applications, TEMP_SESSION_STATE, now,
                   jd_text, resume_text, raw_tips>>

\* variant: the token guard is missing
check_gmail_and_schedule_begin_unguarded(i) ==
    /\ i \in DOMAIN tasks
    /\ tasks[i].pc = "queued"
    /\ tasks' = [tasks EXCEPT
                    ![i].refresh_token = mock_get_user_token(users, tasks[i].user_id),
                    ![i].pc = "sleeping",
                    ![i].wake = now + 1]
    /\ UNCHANGED <<users, applications, TEMP_SESSION_STATE, now, resp,
                   jd_text, resume_text, raw_tips>>

\* check_gmail_and_schedule up to time.sleep(1)
check_gmail_and_schedule_begin(i) ==
    /\ i \in DOMAIN tasks
    /\ tasks[i].pc = "queued"
    /\ LET refresh_token == mock_get_user_token(users, tasks[i].user_id)
       IN  IF ~Truthy(refresh_token)
           THEN tasks' = [tasks EXCEPT ![i].refresh_token = refresh_token,
                                       ![i].pc = "done"]
           ELSE tasks' = [tasks EXCEPT ![i].refresh_token = refresh_token,
                                       ![i].pc = "sleeping",
                                       ![i].wake = now + 1]
    /\ UNCHANGED <<users, applications, TEMP_SESSION_STATE, now, resp,
                   jd_text, resume_text, raw_tips>>

\* check_gmail_and_schedule after time.sleep(1): found is random.random() < 0.5
check_gmail_and_schedule_finish(i, found, company, role, jd, days, r) ==
    /\ i \in DOMAIN tasks
    /\ tasks[i].pc = "sleeping"
    /\ now >= tasks[i].wake
    /\ IF found
       THEN /\ applications' = mock_add_application(applications,
                    tasks[i].user_id, company, role, jd,
                    IsoDate(now, days, 0), now, r)
            /\ tasks' = [tasks EXCEPT ![i].pc = "done"]
       ELSE /\ applications' = applications
            /\ tasks' = [tasks EXCEPT ![i].pc = "done"]
    /\ UNCHANGED <<users, TEMP_SESSION_STATE, now, resp,
                   jd_text, resume_text, raw_tips>>

\* variant: the text is keyed by the user_id of the body
mock_save_resume_endpoint_body_id(user_id, data) ==
    /\ LET us1 == IF data.user_id \notin DOMAIN users
                  THEN Put(users, data.user_id, <<>>) ELSE users
       IN  users' = Put(us1, data.user_id,
                        Put(us1[data.user_id], "resume_text", data.resume_text))
    /\ resp' = Response("mock_save_resume_endpoint", user_id, HTTP_200_OK,
                        "Mock resume saved successfully.", {})
    /\ UNCHANGED <<applications, TEMP_SESSION_STATE, now, tasks,
                   jd_text, resume_text, raw_tips>>

\* POST /mock-save-resume/{user_id}
mock_save_resume_endpoint(user_id, data) ==
    /\ LET us1 == IF user_id \notin DOMAIN users
                  THEN Put(users, user_id, <<>>) ELSE users
       IN  users' = Put(us1, user_id,
                        Put(us1[user_id], "resume_text", data.resume_text))
    /\ resp' = Response("mock_save_resume_endpoint", user_id, HTTP_200_OK,
                        "Mock resume saved successfully.", {})
    /\ UNCHANGED <<applications, TEMP_SESSION_STATE, now, tasks,
                   jd_text, resume_text, raw_tips>>

\* the wall clock advances
Tick ==
    /\ now < MaxTime
    /\ now' = now + 1
    /\ UNCHANGED <<users, applications, TEMP_SESSION_STATE, tasks, resp,
                   jd_text, resume_text, raw_tips>>
    /\ UNCHANGED dashboard

(***************************************************************************)
(* app/services/ai_prep.py                                                 *)
(***************************************************************************)
KEY_TOPICS == <<"sync vs async architectures", "multi-threading in Python",
                "CI/CD pipeline of Project X">>
BEHAVIORAL_QUESTIONS == <<"critical deployment failure", "complex system bug",
                          "disagreement with a senior developer">>
TECHNICAL_QUESTIONS == <<"CAP theorem", "resilient microservice",
                         "FastAPI over Flask">>

\* the values round(random.uniform(lo, hi), 2) can take, in hundredths
uniform_round2(lo, hi) == lo..hi

\* variant: the data-scientist phrase is tested first
score_branch_junior_first(jd) ==
    IF Contains(jd, JuniorDataScientist)
    THEN [lo |-> 80, hi |-> 95, feedback |-> "high match"]
    ELSE IF Contains(jd, SeniorBackendEngineer)
         THEN [lo |-> 40, hi |-> 55, feedback |-> "low match"]
         ELSE [lo |-> 60, hi |-> 75, feedback |-> "good compatibility"]

\* variant: the bounds of the high-match branch are given in percent
score_branch_percent(jd) ==
    IF Contains(jd, SeniorBackendEngineer)
    THEN [lo |-> 40, hi |-> 55, feedback |-> "low match"]
    ELSE IF Contains(jd, JuniorDataScientist)
         THEN [lo |-> 8000, hi |-> 8001, feedback |-> "high match"]
         ELSE [lo |-> 60, hi |-> 75, feedback |-> "good compatibility"]

\* the branch of analyze_documents taken for a job description
score_branch(jd) ==
    IF Contains(jd, SeniorBackendEngineer)
    THEN [lo |-> 40, hi |-> 55, feedback |-> "low match"]
    ELSE IF Contains(jd, JuniorDataScientist)
         THEN [lo |-> 80, hi |-> 95, feedback |-> "high match"]
         ELSE [lo |-> 60, hi |-> 75, feedback |-> "good compatibility"]

\* variant: an empty resume lowers the score
analyze_documents_resume(jd, resume) ==
    {[key_topics_to_revise |-> KEY_TOPICS,
      likely_behavioral_questions |-> BEHAVIORAL_QUESTIONS,
      likely_technical_questions |-> TECHNICAL_QUESTIONS,
      match_confidence |-> IF resume = "" THEN 0 ELSE confidence,
      match_feedback |-> IF Contains(jd, SeniorBackendEngineer) THEN "low match"
                         ELSE IF Contains(jd, JuniorDataScientist)
                              THEN "high match" ELSE "good compatibility"] :
        confidence \in
            IF Contains(jd, SeniorBackendEngineer) THEN uniform_round2(40, 55)
            ELSE IF Contains(jd, JuniorDataScientist) THEN uniform_round2(80, 95)
                 ELSE uniform_round2(60, 75)}

\* MockOpenAIClient.analyze_documents: the results it can return
analyze_documents(jd, resume) ==
    {[key_topics_to_revise |-> KEY_TOPICS,
      likely_behavioral_questions |-> BEHAVIORAL_QUESTIONS,
      likely_technical_questions |-> TECHNICAL_QUESTIONS,
      match_confidence |-> confidence,
      match_feedback |-> score_branch(jd).feedback] :
        confidence \in uniform_round2(score_branch(jd).lo, score_branch(jd).hi)}

\* variant: tips are given only for an application of the requesting user
generate_prep_tips_owner_only(request) ==
    /\ LET resume == mock_get_user_resume(users, request.user_id)
       IN  IF ~Truthy(resume)
           THEN resp' = Response("generate_prep_tips", request.user_id,
                                 HTTP_404_NOT_FOUND, "User resume not found", {})
           ELSE IF \/ request.app_id \notin DOMAIN applications
                   \/ applications[request.app_id].user_id # request.user_id
                THEN resp' = Response("generate_prep_tips", request.user_id,
                                      HTTP_404_NOT_FOUND,
                                      "Application data not found", {})
                ELSE \E tips \in analyze_documents(
                                    applications[request.app_id].jd_text, resume) :
                        resp' = Response("generate_prep_tips", request.user_id,
                                         HTTP_200_OK, None,
                                         {PrepTipsResponse(tips)})
    /\ UNCHANGED <<users, applications, TEMP_SESSION_STATE, now, tasks,
                   jd_text, resume_text, raw_tips>>

\* variant: the application is looked up before the resume
generate_prep_tips_app_first(request) ==
    /\ LET resume == mock_get_user_resume(users, request.user_id)
       IN  IF request.app_id \notin DOMAIN applications
           THEN resp' = Response("generate_prep_tips", request.user_id,
                                 HTTP_404_NOT_FOUND,
                                 "Application data not found", {})
           ELSE IF ~Truthy(resume)
                THEN resp' = Response("generate_prep_tips", request.user_id,
                                      HTTP_404_NOT_FOUND,
                                      "User resume not found", {})
                ELSE \E tips \in analyze_documents(
                                    applications[request.app_id].jd_text, resume) :
                        resp' = Response("generate_prep_tips", request.user_id,
                                         HTTP_200_OK, None,
                                         {PrepTipsResponse(tips)})
    /\ UNCHANGED <<users, applications, TEMP_SESSION_STATE, now, tasks,
                   jd_text, resume_text, raw_tips>>

\* POST /prep
generate_prep_tips(request) ==
    /\ LET resume == mock_get_user_resume(users, request.user_id)
       IN  IF ~Truthy(resume)
           THEN resp' = Response("generate_prep_tips", request.user_id,
                                 HTTP_404_NOT_FOUND, "User resume not found", {})
           ELSE IF request.app_id \notin DOMAIN applications
                THEN resp' = Response("generate_prep_tips", request.user_id,
                                      HTTP_404_NOT_FOUND,
                                      "Application data not found", {})
                ELSE \E tips \in analyze_documents(
                                    applications[request.app_id].jd_text, resume) :
                        resp' = Response("generate_prep_tips", request.user_id,
                                         HTTP_200_OK, None,
                                         {PrepTipsResponse(tips)})
    /\ UNCHANGED <<users, applications, TEMP_SESSION_STATE, now, tasks,
                   jd_text, resume_text, raw_tips>>

\* a direct call mock_ai_client.analyze_documents(jd_text, resume_text)
AnalyzeCall ==
    /\ \E tips \in analyze_documents(jd_text, resume_text) : raw_tips' = {tips}
    /\ UNCHANGED <<users, applications, TEMP_SESSION_STATE, now, tasks, resp,
                   jd_text, resume_text>>
    /\ UNCHANGED dashboard

(***************************************************************************)
(* app/services/auth.py                                                    *)
(***************************************************************************)
\* GET /google/login: state is the value flow.authorization_url generates
login(state) ==
    /\ TEMP_SESSION_STATE' = Put(TEMP_SESSION_STATE, "oauth_state", state)
    /\ resp' = Response("login", None, HTTP_307_TEMPORARY_REDIRECT,
                        "authorization_url", {})
    /\ UNCHANGED <<users, applications, now, tasks,
                   jd_text, resume_text, raw_tips>>

\* GET /google/callback.  state is request.query_params.get('state');
\* fetch_ok tells whether flow.fetch_token returns; refresh_token is
\* credentials.refresh_token; user_id and name come from the userinfo service
callback(state, fetch_ok, refresh_token, user_id, name) ==
    IF state # Get(TEMP_SESSION_STATE, "oauth_state")
    THEN /\ resp' = Response("callback", None, HTTP_400_BAD_REQUEST,
                             "State mismatch", {})
         /\ UNCHANGED <<users, applications, TEMP_SESSION_STATE, now, tasks,
                        jd_text, resume_text, raw_tips>>
    ELSE IF ~fetch_ok
         THEN /\ resp' = Response("callback", None,
                                  HTTP_500_INTERNAL_SERVER_ERROR,
                                  "Error retrieving access tokens", {})
              /\ UNCHANGED <<users, applications, TEMP_SESSION_STATE, now,
                             tasks, jd_text, resume_text, raw_tips>>
         ELSE /\ users' = IF Truthy(refresh_token)
                          THEN mock_save_user_token(users, user_id, refresh_token)
                          ELSE users
              /\ TEMP_SESSION_STATE' = Pop(TEMP_SESSION_STATE, "oauth_state")
              /\ resp' = Response("callback", user_id, HTTP_302_FOUND, None,
                                  {[user_id |-> user_id,
                                    user_name |-> IF name = None THEN "User"
                                                  ELSE name,
                                    auth_success |-> "true"]})
              /\ UNCHANGED <<applications, now, tasks,
                             jd_text, resume_text, raw_tips>>

\* GET /user/status
get_user_status(user_id) ==
    /\ resp' = Response("get_user_status", user_id, HTTP_200_OK, None,
                        {[authenticated |->
                              Truthy(mock_get_user_token(users, user_id))]})
    /\ UNCHANGED <<users, applications, TEMP_SESSION_STATE, now, tasks,
                   jd_text, resume_text, raw_tips>>

(***************************************************************************)
(* app.py (the dashboard)                                                  *)
(***************************************************************************)
\* the session state a new browser session starts with, and the one the
\* Logout and Use Mock Data buttons assign
GuestSession ==
    [user_id |-> MOCK_USER_ID, user_name |-> "Guest", authenticated |-> FALSE]

\* no step of the dashboard script has run
NoView == [op |-> None, returned |-> {}]

\* the session states check_auth_status can be called in
Sessions ==
    [user_id : UserIds, user_name : {"Guest", "User", "Ann"},
     authenticated : BOOLEAN]

\* what the status request gives: the JSON of the answer, nothing when the
\* request fails
StatusReplies == {{}} \cup {{[authenticated |-> b]} : b \in BOOLEAN}

\* variant: the guest user is looked up in the backend like any other
check_auth_status_guest_queried(s, reply) ==
    IF s.authenticated
    THEN [session |-> s, returned |-> TRUE, queried |-> FALSE]
    ELSE IF \E data \in reply : data.authenticated
         THEN [session |-> [s EXCEPT !.authenticated = TRUE],
               returned |-> TRUE, queried |-> TRUE]
         ELSE [session |-> s, returned |-> FALSE, queried |-> TRUE]

\* check_auth_status on the session state s: the session state it leaves,
\* the value it returns and whether it sends the status request; reply is
\* what that request gives
check_auth_status(s, reply) ==
    IF s.authenticated
    THEN [session |-> s, returned |-> TRUE, queried |-> FALSE]
    ELSE IF s.user_id = MOCK_USER_ID /\ ~s.authenticated
         THEN [session |-> s, returned |-> FALSE, queried |-> FALSE]
         ELSE IF \E data \in reply : data.authenticated
              THEN [session |-> [s EXCEPT !.authenticated = TRUE],
                    returned |-> TRUE, queried |-> TRUE]
              ELSE [session |-> s, returned |-> FALSE, queried |-> TRUE]

\* a run of the script without redirect parameters: check_auth_status, the
\* backend serving GET /auth/user/status when it is asked and reachable
CheckAuthStatus ==
    \E backend_up \in BOOLEAN :
        IF check_auth_status(session, {}).queried /\ backend_up
        THEN /\ get_user_status(session.user_id)
             /\ LET r == check_auth_status(session, resp'.body)
                IN  /\ session' = r.session
                    /\ view' = [op |-> "check_auth_status",
                                returned |-> {r.returned}]
        ELSE /\ LET r == check_auth_status(session, {})
                IN  /\ session' = r.session
                    /\ view' = [op |-> "check_auth_status",
                                returned |-> {r.returned}]
             /\ UNCHANGED <<users, applications, TEMP_SESSION_STATE, now,
                            tasks, resp, jd_text, resume_text, raw_tips>>

\* handle_oauth_callback on the query parameters of the backend's redirect
handle_oauth_callback(query_params) ==
    /\ IF query_params.auth_success = "true" /\ Truthy(query_params.user_id)
       THEN session' = [user_id |-> query_params.user_id,
                        user_name |-> query_params.user_name,
                        authenticated |-> TRUE]
       ELSE session' = session
    /\ view' = [op |-> "handle_oauth_callback", returned |-> {}]
    /\ UNCHANGED <<users, applications, TEMP_SESSION_STATE, now, tasks, resp,
                   jd_text, resume_text, raw_tips>>

\* the browser follows the redirect of the latest OAuth callback
OAuthRedirect ==
    /\ resp.op = "callback"
    /\ resp.status = HTTP_302_FOUND
    /\ \E query_params \in resp.body : handle_oauth_callback(query_params)

\* the Logout button, shown in an authenticated session
Logout ==
    /\ session.authenticated
    /\ session' = [user_id |-> MOCK_USER_ID, user_name |-> "Guest",
                   authenticated |-> FALSE]
    /\ view' = [op |-> "logout_btn", returned |-> {}]
    /\ UNCHANGED <<users, applications, TEMP_SESSION_STATE, now, tasks, resp,
                   jd_text, resume_text, raw_tips>>

\* the Use Mock Data button, shown in an unauthenticated session
UseMockData ==
    /\ ~session.authenticated
    /\ session' = [user_id |-> MOCK_USER_ID, user_name |-> "Guest",
                   authenticated |-> FALSE]
    /\ view' = [op |-> "mock_load_btn", returned |-> {}]
    /\ UNCHANGED <<users, applications, TEMP_SESSION_STATE, now, tasks, resp,
                   jd_text, resume_text, raw_tips>>

\* render_ai_assistant shows the LOW MATCH warning: match_confidence < 0.6
LowMatchWarning(tips) == tips.match_confidence < 60

(***************************************************************************)
(* Specifications.                                                         *)
(***************************************************************************)
\* the request bodies of POST /start-check
UserModels == {[id |-> u, email |-> "e", name |-> "n"] : u \in UserIds}

\* the state after the modules are imported
Init ==
    /\ users = <<>>
    /\ applications = <<>>
    /\ TEMP_SESSION_STATE = <<>>
    /\ now = 0
    /\ tasks = <<>>
    /\ resp = NoResponse
    /\ jd_text = <<>>
    /\ resume_text = ""
    /\ raw_tips = {}
    /\ session = GuestSession
    /\ view = NoView

ListRequest ==
    /\ \E user_id \in UserIds, t1 \in Times, t2 \in Times, t3 \in Times,
          r1 \in RandIds, r2 \in RandIds, r3 \in RandIds :
          get_applications_list(user_id, t1, t2, t3, r1, r2, r3)
    /\ UNCHANGED dashboard

\* at most MaxTasks requests, each early enough for its run to end by MaxTime
StartCheckRequest ==
    /\ Len(tasks) < MaxTasks
    /\ now < MaxTime
    /\ \E user \in UserModels : start_background_check(user)
    /\ UNCHANGED dashboard

CheckerBegin ==
    /\ \E i \in DOMAIN tasks :
          check_gmail_and_schedule_begin(i)
    /\ UNCHANGED dashboard

CheckerFinish ==
    /\ \E i \in DOMAIN tasks, found \in BOOLEAN,
          company \in CheckerCompanies, role \in CheckerRoles,
          jd \in MOCK_JDS_values, days \in RandDays, r \in RandIds :
          check_gmail_and_schedule_finish(i, found, company, role, jd, days, r)
    /\ UNCHANGED dashboard

\* the applications endpoint alone
NextList == ListRequest \/ Tick

SpecList == Init /\ [][NextList]_vars

\* the background checker, from a store in which the Google user may have
\* signed in
InitChecker ==
    /\ users \in {<<>>, mock_save_user_token(<<>>, "G1", "rt1")}
    /\ applications = <<>>
    /\ TEMP_SESSION_STATE = <<>>
    /\ now = 0
    /\ tasks = <<>>
    /\ resp = NoResponse
    /\ jd_text = <<>>
    /\ resume_text = ""
    /\ raw_tips = {}
    /\ session = GuestSession
    /\ view = NoView

NextChecker == StartCheckRequest \/ CheckerBegin \/ CheckerFinish \/ Tick

SpecChecker == InitChecker /\ [][NextChecker]_vars
\* every app_id the model can generate
AppIds == {AppId(t, r) : t \in Times, r \in RandIds}

ResumeUploads == [user_id : UserIds, resume_text : ResumeTexts]
AIPrepRequests == [app_id : AppIds, user_id : UserIds]

LoginRequest ==
    /\ \E state \in States :
          login(state)
    /\ UNCHANGED dashboard

CallbackRequest ==
    /\ \E state \in States \cup {None}, fetch_ok \in BOOLEAN,
          refresh_token \in Tokens \cup {None}, user_id \in GoogleIds,
          name \in Names :
          callback(state, fetch_ok, refresh_token, user_id, name)
    /\ UNCHANGED dashboard

StatusRequest ==
    /\ \E user_id \in UserIds :
          get_user_status(user_id)
    /\ UNCHANGED dashboard

ResumeRequest ==
    /\ \E user_id \in UserIds, data \in ResumeUploads :
          mock_save_resume_endpoint(user_id, data)
    /\ UNCHANGED dashboard

PrepRequest ==
    /\ \E request \in AIPrepRequests :
          generate_prep_tips(request)
    /\ UNCHANGED dashboard

\* a GET /applications/{user_id} served from second now to second MaxTime
\* with the draws RandLo, MaxRand, RandLo
SeedRequest ==
    /\ \E user_id \in UserIds :
          get_applications_list(user_id, now, now, MaxTime, RandLo, MaxRand, RandLo)
    /\ UNCHANGED dashboard

\* the background checker next to the applications endpoint
NextTracker ==
    StartCheckRequest \/ CheckerBegin \/ CheckerFinish \/ SeedRequest \/ Tick

SpecTracker == InitChecker /\ [][NextTracker]_vars

\* the OAuth endpoints and the users store
NextAuth == LoginRequest \/ CallbackRequest \/ StatusRequest \/ ResumeRequest

SpecAuth == Init /\ [][NextAuth]_vars

\* the AI preparation endpoint over stored resumes and applications
NextPrep == ResumeRequest \/ SeedRequest \/ PrepRequest

SpecPrep == Init /\ [][NextPrep]_vars

\* one of the parts a job description is made of
JdParts == {SeniorBackendEngineer, JuniorDataScientist, <<"Senior">>,
            <<"Backend", "Engineer">>, <<"Data", "Scientist">>, <<"DevOps">>}

RECURSIVE TextsOf(_)
\* the texts made of at most n parts
TextsOf(n) ==
    IF n = 0 THEN {<<>>}
    ELSE LET shorter == TextsOf(n - 1)
         IN  shorter \cup {t \o p : t \in shorter, p \in JdParts}

JdTexts == TextsOf(MaxParts) \cup MOCK_JDS_values

\* direct calls of the stub client on arbitrary texts
InitAI ==
    /\ users = <<>>
    /\ applications = <<>>
    /\ TEMP_SESSION_STATE = <<>>
    /\ now = 0
    /\ tasks = <<>>
    /\ resp = NoResponse
    /\ jd_text \in JdTexts
    /\ resume_text \in ResumeTexts
    /\ raw_tips = {}
    /\ session = GuestSession
    /\ view = NoView

NextAI == AnalyzeCall

SpecAI == InitAI /\ [][NextAI]_vars

\* the whole backend with the dashboard session
Next ==
    \/ ListRequest
    \/ StartCheckRequest
    \/ CheckerBegin
    \/ CheckerFinish
    \/ ResumeRequest
    \/ PrepRequest
    \/ LoginRequest
    \/ CallbackRequest
    \/ StatusRequest
    \/ Tick
    \/ OAuthRedirect
    \/ CheckAuthStatus
    \/ Logout
    \/ UseMockData

Spec == Init /\ [][Next]_vars
(***************************************************************************)
(* Properties.                                                             *)
(***************************************************************************)
\* C1: an application record, once in the applications store, is never
\* removed and none of its fields ever changes.
C1_ApplicationsNeverChange ==
    [][\A id \in DOMAIN applications :
          /\ id \in DOMAIN applications'
          /\ applications'[id] = applications[id]]_vars

\* C2 as stated: a stored refresh_token or resume_text is never replaced by
\* a different value and never deleted.
C2_UserFieldsNeverReplaced ==
    [][\A u \in DOMAIN users :
          /\ u \in DOMAIN users'
          /\ \A k \in DOMAIN users[u] :
                k \in DOMAIN users'[u] /\ users'[u][k] = users[u][k]]_vars

\* C2 amended: a stored refresh_token or resume_text is never deleted; a
\* refresh_token is replaced only by a callback for that user and a
\* resume_text only by mock_save_resume_endpoint for that user.
C2_UserFieldsNeverDeleted ==
    [][\A u \in DOMAIN users :
          /\ u \in DOMAIN users'
          /\ \A k \in DOMAIN users[u] :
                /\ k \in DOMAIN users'[u]
                /\ users'[u][k] # users[u][k] =>
                      IF k = "refresh_token"
                      THEN \E state \in States \cup {None}, name \in Names :
                              callback(state, TRUE, users'[u][k], u, name)
                      ELSE \E data \in ResumeUploads :
                              mock_save_resume_endpoint(u, data)]_vars

\* C2 witness: a callback has just redirected for a user who holds a resume
\* and the refresh token rt2
C2_Witness ==
    /\ "G1" \in DOMAIN users
    /\ DOMAIN users["G1"] = {"refresh_token", "resume_text"}
    /\ users["G1"]["refresh_token"] = "rt2"
    /\ resp.op = "callback" /\ resp.status = HTTP_302_FOUND

\* C3: get_applications_list completes without error and returns exactly
\* the stored applications of the path user_id.
C3_ListReturnsStoredApplications ==
    resp.op = "get_applications_list" =>
        /\ resp.status = HTTP_200_OK
        /\ resp.body =
              {ApplicationList(mock_get_applications(applications, resp.user_id))}

\* C4: get_applications_list inserts the three demo applications exactly
\* when the user has no stored application, so that the user then owns
\* exactly three and every earlier record is kept, and inserts nothing
\* otherwise.
C4_SeedsExactlyThree ==
    [][\A user_id \in UserIds, t1 \in Times, t2 \in Times, t3 \in Times,
          r1 \in RandIds, r2 \in RandIds, r3 \in RandIds :
          get_applications_list(user_id, t1, t2, t3, r1, r2, r3) =>
              IF mock_get_applications(applications, user_id) = {}
              THEN /\ Cardinality(mock_get_applications(applications', user_id)) = 3
                   /\ {a.company : a \in mock_get_applications(applications', user_id)}
                        = {"TechCorp Solutions", "Innovate Systems", "Aurora Labs"}
                   /\ \A id \in DOMAIN applications :
                         /\ id \in DOMAIN applications'
                         /\ applications'[id] = applications[id]
              ELSE applications' = applications]_vars

\* C5: a run of check_gmail_and_schedule for a user without a (non-empty)
\* refresh token returns at once and leaves the store unchanged.
C5_NoTokenNoInsert ==
    [][\A i \in DOMAIN tasks :
          (/\ check_gmail_and_schedule_begin(i)
           /\ ~Truthy(mock_get_user_token(users, tasks[i].user_id)))
          => /\ tasks'[i].pc = "done"
             /\ store' = store]_vars

\* C5 witness: a run has ended for a user without a token
C5_Witness ==
    \E i \in DOMAIN tasks :
        /\ tasks[i].pc = "done"
        /\ ~Truthy(tasks[i].refresh_token)
        /\ ~Truthy(mock_get_user_token(users, tasks[i].user_id))

\* C6: the second half of a run for a user with a token inserts nothing or
\* exactly one new application with the user's id, status Upcoming and
\* drawn company, role and jd_text; nothing else in the store changes.
C6_InsertsZeroOrOne ==
    [][\A i \in DOMAIN tasks, found \in BOOLEAN, company \in CheckerCompanies,
          role \in CheckerRoles, jd \in MOCK_JDS_values, days \in RandDays,
          r \in RandIds :
          check_gmail_and_schedule_finish(i, found, company, role, jd, days, r) =>
              /\ users' = users
              /\ \/ applications' = applications
                 \/ \E id \in DOMAIN applications' \ DOMAIN applications :
                       /\ DOMAIN applications' = DOMAIN applications \cup {id}
                       /\ \A old \in DOMAIN applications :
                             applications'[old] = applications[old]
                       /\ applications'[id].user_id = tasks[i].user_id
                       /\ applications'[id].status = "Upcoming"
                       /\ applications'[id].company \in CheckerCompanies
                       /\ applications'[id].role \in CheckerRoles
                       /\ applications'[id].jd_text \in MOCK_JDS_values]_vars

\* C7: generate_prep_tips answers 404 "User resume not found" when the
\* user has no or an empty resume, whatever the app_id; 404 "Application
\* data not found" when the resume exists and the app_id is not stored; a
\* PrepTipsResponse otherwise; and never changes the store.
C7_PrepOutcomes ==
    [][\A request \in AIPrepRequests :
          (/\ resp'.op = "generate_prep_tips"
           /\ resp'.user_id = request.user_id
           /\ generate_prep_tips(request)) =>
              /\ store' = store
              /\ IF ~Truthy(mock_get_user_resume(users, request.user_id))
                 THEN /\ resp'.status = HTTP_404_NOT_FOUND
                      /\ resp'.detail = "User resume not found"
                 ELSE IF request.app_id \notin DOMAIN applications
                      THEN /\ resp'.status = HTTP_404_NOT_FOUND
                           /\ resp'.detail = "Application data not found"
                      ELSE /\ resp'.status = HTTP_200_OK
                           /\ \E tips \in resp'.body :
                                 /\ resp'.body = {tips}
                                 /\ DOMAIN tips =
                                       {"key_topics_to_revise",
                                        "likely_behavioral_questions",
                                        "likely_technical_questions",
                                        "match_confidence", "match_feedback"}]_vars

\* C7 witness: a request of a user without a usable resume for a stored
\* application was answered 404 "User resume not found"
C7_Witness ==
    /\ resp.op = "generate_prep_tips"
    /\ resp.status = HTTP_404_NOT_FOUND
    /\ resp.detail = "User resume not found"
    /\ mock_get_user_resume(users, resp.user_id) = ""
    /\ applications # <<>>

\* C8: every PrepTipsResponse built from a result of analyze_documents has
\* a match_confidence between 0.0 and 1.0 (0 and 100 hundredths).
C8_ConfidenceInUnitInterval ==
    \A tips \in raw_tips :
        /\ PrepTipsResponse(tips).match_confidence >= 0
        /\ PrepTipsResponse(tips).match_confidence <= 100

\* C8 witness: a result with the largest confidence of the high-match branch
C8_Witness ==
    \E tips \in raw_tips :
        tips.match_confidence = 95 /\ Contains(jd_text, JuniorDataScientist)

\* C9: the three lists are the same for every input, and for a given
\* jd_text every resume_text gives the same feedback and the same set of
\* possible results.
C9_ResumeNeverInfluences ==
    \A tips \in raw_tips :
        /\ \A r2 \in ResumeTexts :
              /\ analyze_documents(jd_text, r2)
                    = analyze_documents(jd_text, resume_text)
              /\ tips \in analyze_documents(jd_text, r2)
              /\ \A t2 \in analyze_documents(jd_text, r2) :
                    t2.match_feedback = tips.match_feedback
        /\ \A jd2 \in MOCK_JDS_values \cup {<<>>}, r2 \in ResumeTexts :
              \A t2 \in analyze_documents(jd2, r2) :
                  /\ t2.key_topics_to_revise = tips.key_topics_to_revise
                  /\ t2.likely_behavioral_questions
                        = tips.likely_behavioral_questions
                  /\ t2.likely_technical_questions
                        = tips.likely_technical_questions

\* C9 witness: a result for an empty resume and a data-scientist text
C9_Witness ==
    /\ raw_tips # {}
    /\ resume_text = ""
    /\ Contains(jd_text, JuniorDataScientist)
    /\ ~Contains(jd_text, SeniorBackendEngineer)

\* C10: a callback whose state parameter is not the state recorded by the
\* latest login, also when no state is recorded, is answered 400 "State
\* mismatch", saves no token and leaves the recorded state unchanged.
C10_StateMismatchRejected ==
    [][\A state \in States \cup {None}, fetch_ok \in BOOLEAN,
          refresh_token \in Tokens \cup {None}, user_id \in GoogleIds,
          name \in Names :
          (/\ callback(state, fetch_ok, refresh_token, user_id, name)
           /\ \/ "oauth_state" \notin DOMAIN TEMP_SESSION_STATE
              \/ state # TEMP_SESSION_STATE["oauth_state"])
          => /\ resp'.status = HTTP_400_BAD_REQUEST
             /\ resp'.detail = "State mismatch"
             /\ users' = users
             /\ TEMP_SESSION_STATE' = TEMP_SESSION_STATE]_vars

NextAccount == NextAuth \/ SeedRequest

SpecAccount == Init /\ [][NextAccount]_vars

\* C12: get_user_status answers authenticated = true exactly when a
\* non-empty refresh token is stored for the user_id (so false for
\* MOCK_USER_ID, for which no token is ever saved), and changes nothing in
\* the store.
C12_StatusIffToken ==
    [][\A user_id \in UserIds :
          (resp'.op = "get_user_status" /\ get_user_status(user_id)) =>
              /\ store' = store
              /\ resp'.status = HTTP_200_OK
              /\ resp'.body =
                    {[authenticated |->
                          /\ user_id \in DOMAIN users
                          /\ "refresh_token" \in DOMAIN users[user_id]
                          /\ users[user_id]["refresh_token"] \in Tokens]}
              /\ user_id = MOCK_USER_ID =>
                    resp'.body = {[authenticated |-> FALSE]}]_vars

\* C12 witness: the status of a user who has a record (a resume) but no
\* token was answered authenticated = false
C12_Witness ==
    /\ resp.op = "get_user_status"
    /\ resp.body = {[authenticated |-> FALSE]}
    /\ resp.user_id \in DOMAIN users
    /\ "refresh_token" \notin DOMAIN users[resp.user_id]

\* C13: after mock_save_resume_endpoint(user_id, data) the resume of the
\* path user_id is data.resume_text, whatever data.user_id is; the user's
\* refresh_token, every other user's record and every application are
\* unchanged.
C13_ResumeKeyedByPath ==
    [][\A user_id \in UserIds, data \in ResumeUploads :
          (/\ resp'.op = "mock_save_resume_endpoint"
           /\ mock_save_resume_endpoint(user_id, data)) =>
              /\ resp'.status = HTTP_200_OK
              /\ mock_get_user_resume(users', user_id) = data.resume_text
              /\ mock_get_user_token(users', user_id)
                    = mock_get_user_token(users, user_id)
              /\ DOMAIN users' = DOMAIN users \cup {user_id}
              /\ \A u \in DOMAIN users \ {user_id} : users'[u] = users[u]
              /\ applications' = applications]_vars

\* C13 witness: a resume was saved for a user who holds a token while
\* applications are stored
C13_Witness ==
    /\ resp.op = "mock_save_resume_endpoint"
    /\ Truthy(mock_get_user_token(users, resp.user_id))
    /\ mock_get_user_resume(users, resp.user_id) = "cv2"
    /\ applications # <<>>

\* overlapping runs of the checker: one request more than MaxTasks
OverlapRequest ==
    /\ Len(tasks) < MaxTasks + 1
    /\ now < MaxTime
    /\ \E user \in UserModels : start_background_check(user)
    /\ UNCHANGED dashboard

\* the wall clock advances, also past MaxTime while a run sleeps
OverlapTick ==
    /\ \/ now < MaxTime
       \/ \E i \in DOMAIN tasks :
             tasks[i].pc = "sleeping" /\ tasks[i].wake > now
    /\ now' = now + 1
    /\ UNCHANGED <<users, applications, TEMP_SESSION_STATE, tasks, resp,
                   jd_text, resume_text, raw_tips>>
    /\ UNCHANGED dashboard

NextOverlap == OverlapRequest \/ CheckerBegin \/ CheckerFinish \/ OverlapTick

\* the worker threads run every queued task and the clock keeps advancing
SpecOverlap ==
    /\ InitChecker
    /\ [][NextOverlap]_vars
    /\ WF_vars(CheckerBegin)
    /\ WF_vars(CheckerFinish)
    /\ WF_vars(OverlapTick)

\* C14: every start_background_check is answered "Background Gmail check
\* initiated." and queues exactly one run for user.id; the runs insert at
\* most one application each, and a run that finds an email adds a record
\* while every record inserted before is preserved.
C14_EachInsertionPreserved ==
    [][/\ \A user \in UserModels :
             (resp'.op = "start_background_check"
              /\ start_background_check(user)) =>
                 /\ resp'.detail = "Background Gmail check initiated."
                 /\ Len(tasks') = Len(tasks) + 1
                 /\ tasks'[Len(tasks')].user_id = user.id
                 /\ tasks'[Len(tasks')].pc = "queued"
       /\ Cardinality(DOMAIN applications') <= Len(tasks')
       /\ \A i \in DOMAIN tasks, company \in CheckerCompanies,
             role \in CheckerRoles, jd \in MOCK_JDS_values, days \in RandDays,
             r \in RandIds :
             check_gmail_and_schedule_finish(i, TRUE, company, role, jd, days, r)
             => /\ Cardinality(DOMAIN applications')
                      = Cardinality(DOMAIN applications) + 1
                /\ \A id \in DOMAIN applications :
                      /\ id \in DOMAIN applications'
                      /\ applications'[id] = applications[id]]_vars

\* every requested run eventually terminates
RunsTerminate ==
    \A i \in 1..(MaxTasks + 1) :
        (i \in DOMAIN tasks) ~> (i \in DOMAIN tasks /\ tasks[i].pc = "done")

\* C15: generate_prep_tips enforces no ownership: for a user with a non-empty
\* stored resume and an app_id present in the store the call answers 200 with
\* the tips, whichever user the stored application belongs to.
C15_NoOwnershipCheck ==
    [][\A request \in AIPrepRequests :
          (/\ resp'.op = "generate_prep_tips"
           /\ resp'.user_id = request.user_id
           /\ request.user_id \in DOMAIN users
           /\ "resume_text" \in DOMAIN users[request.user_id]
           /\ users[request.user_id]["resume_text"] \in ResumeTexts \ {""}
           /\ request.app_id \in DOMAIN applications
           /\ generate_prep_tips(request))
          => /\ resp'.status = HTTP_200_OK
             /\ resp'.body # {}
             /\ store' = store]_vars

\* tips were returned to a user who owns none of the stored applications
C15_Witness ==
    /\ resp.op = "generate_prep_tips"
    /\ resp.status = HTTP_200_OK
    /\ applications # <<>>
    /\ \A id \in DOMAIN applications : applications[id].user_id # resp.user_id

\* C16: the confidence range is picked by the first matching phrase: a
\* jd_text containing "Senior Backend Engineer" gives 0.40..0.55 (also when
\* it contains "Junior Data Scientist"), otherwise one containing "Junior
\* Data Scientist" gives 0.80..0.95, otherwise 0.60..0.75; the dashboard
\* shows the LOW MATCH warning exactly for the texts of the first kind.
C16_RangeByFirstMatch ==
    \A tips \in raw_tips :
        LET c == tips.match_confidence
            senior == Contains(jd_text, SeniorBackendEngineer)
            junior == Contains(jd_text, JuniorDataScientist)
        IN  /\ senior => (40 <= c /\ c <= 55)
            /\ (~senior /\ junior) => (80 <= c /\ c <= 95)
            /\ (~senior /\ ~junior) => (60 <= c /\ c <= 75)
            /\ LowMatchWarning(PrepTipsResponse(tips)) <=> senior

\* C16 witness: a text with both phrases got the largest low-match score
C16_Witness ==
    \E tips \in raw_tips :
        /\ Contains(jd_text, SeniorBackendEngineer)
        /\ Contains(jd_text, JuniorDataScientist)
        /\ tips.match_confidence = 55
        /\ LowMatchWarning(PrepTipsResponse(tips))

\* the dashboard session over the OAuth endpoints
NextDashboard ==
    \/ LoginRequest
    \/ CallbackRequest
    \/ OAuthRedirect
    \/ CheckAuthStatus
    \/ Logout
    \/ UseMockData

SpecDashboard == Init /\ [][NextDashboard]_vars

\* C17: after Logout or Use Mock Data the session is user_id MOCK_USER_ID,
\* user_name Guest, authenticated False.  check_auth_status returns True at
\* once in an authenticated session; for user_id MOCK_USER_ID it leaves the
\* session as it is, sends no status request and, when unauthenticated,
\* returns False; otherwise it sets authenticated to True only when the
\* status request reports a token, which the backend reports only for a
\* user_id with a stored token.
C17_SessionResetAndStatusCheck ==
    [][/\ view'.op \in {"logout_btn", "mock_load_btn"}
             => session' = [user_id |-> MOCK_USER_ID, user_name |-> "Guest",
                            authenticated |-> FALSE]
       /\ CheckAuthStatus =>
             /\ session.authenticated
                   => /\ session' = session
                      /\ view'.returned = {TRUE}
                      /\ resp' = resp
             /\ session.user_id = MOCK_USER_ID
                   => /\ session' = session
                      /\ view'.returned = {session.authenticated}
                      /\ resp' = resp
             /\ (session'.authenticated /\ ~session.authenticated)
                   => Truthy(mock_get_user_token(users, session.user_id))
       /\ \A s \in Sessions, reply \in StatusReplies :
             LET r == check_auth_status(s, reply)
             IN  /\ s.authenticated
                       => r = [session |-> s, returned |-> TRUE,
                               queried |-> FALSE]
                 /\ s.user_id = MOCK_USER_ID
                       => /\ r.session = s
                          /\ ~r.queried
                          /\ r.returned = s.authenticated
                 /\ (~s.authenticated /\ s.user_id # MOCK_USER_ID)
                       => /\ r.queried
                          /\ r.returned = (\E data \in reply : data.authenticated)
                          /\ r.session = [s EXCEPT !.authenticated = r.returned]]_vars

\* C17 witness: check_auth_status returned False for the guest session and
\* left it unauthenticated while the token of a Google user is stored
C17_Witness ==
    /\ view.op = "check_auth_status"
    /\ view.returned = {FALSE}
    /\ session = GuestSession
    /\ \E u \in GoogleIds : Truthy(mock_get_user_token(users, u))

\* an unauthenticated dashboard session is always the guest's
UnauthenticatedIsGuest == ~session.authenticated => session.user_id = MOCK_USER_ID

====
